---- MODULE Spec2Model ----
(***************************************************************************)
(* Model of the useWebSocket hook of kabaw-webchat (the variant with      *)
(* exponential backoff, connection timeout and message queue).            *)
(*                                                                         *)
(* One action per callback of the hook: the public commands (connect,     *)
(* disconnect, retryConnection, sendMessage, clearMessages), the handlers *)
(* installed on each WebSocket (onopen, onmessage, onclose) and the two   *)
(* setTimeout callbacks (connection timeout, reconnect).  JavaScript runs *)
(* each callback to completion, so each is one atomic step.               *)
(*                                                                         *)
(* A WebSocket ("Link") is identified by its construction number.  The    *)
(* connection timeout set for Link l is timer l of connTimers; the        *)
(* reconnect timer set by the close handler of Link l is timer l of       *)
(* reconnTimers (each close handler runs at most once).                   *)
(*                                                                         *)
(* connectionInfo.status is read by sendMessage and retryConnection from  *)
(* the last render; the model takes the render to have happened before    *)
(* each command, i.e. the command reads the current published status.     *)
(***************************************************************************)
EXTENDS Integers, Sequences, FiniteSets, TLC

\* ------------------------------------------------------------------ bounds
MaxLinks == 3         \* Links constructed in one behaviour of Spec
MaxLinksQueue == 2    \* ... of SpecQueue
MaxLinksLog == 2      \* ... of SpecLog
MaxLinksRetry == 7    \* ... of SpecRetry
MaxCommandLinks == 2  \* SpecRetry issues commands only for the first Links
MaxLinksSend == 4     \* Links constructed in one behaviour of SpecSend
MaxSentSend == 1      \* payloads accepted by sendMessage in SpecSend
MaxSent == 2          \* payloads accepted by sendMessage in SpecQueue
MaxWire == 2          \* frames delivered between two clearMessages in SpecLog
MaxLinksIdent == 2    \* Links constructed in one behaviour of SpecIdent
MaxLinksEvents == 2   \* Links constructed in one behaviour of SpecEvents
MaxSentEvents == 1    \* payloads accepted by sendMessage in SpecEvents
MaxWireEvents == 1    \* frames delivered between two clearMessages in SpecEvents
MaxLinksClose == 2    \* Links constructed in one behaviour of SpecClose
MaxAttempt == 30      \* largest attempt passed to getReconnectDelay in SpecDelay

\* --------------------------------------------------------------- constants
MAX_RECONNECT_ATTEMPTS == 5
RECONNECT_DELAYS == <<1000, 2000, 4000, 8000, 16000>>
CONNECTION_TIMEOUT == 10000

Null == "NULL"
NoLink == 0

\* identities the application passes to connect(username, channel)
Idents == { <<"Al Ice", "dev">>, <<"", "">> }

\* contents the application passes to sendMessage, as character sequences
Contents == { <<>>, <<" ">>, <<"a">>, <<" ", "b", " ">> }

\* raw frames the transport delivers (event.data)
Frames ==
  { [k |-> "malformed", type |-> "", user_id |-> "", content |-> ""],
    [k |-> "null", type |-> "", user_id |-> "", content |-> ""],
    [k |-> "object", type |-> "message", user_id |-> "", content |-> "hi"],
    [k |-> "object", type |-> "user_connected", user_id |-> "u1", content |-> "joined"] }

\* close codes a close event can carry
CloseCodes == {1000, 1001, 1005, 1006, 4000}

VARIABLES
  status, error, userId, pubUsername, pubChannel, pubAttempt,  \* connectionInfo
  messages,                 \* the messages state (inbound log)
  wsRef,                    \* wsRef.current: a Link id or NoLink
  reconnectAttemptsRef,
  reconnectTimeoutRef,      \* id of a reconnect timer, or 0
  connectionTimeoutRef,     \* id of a connection-timeout timer, or 0
  shouldReconnectRef,
  connectionParamsRef,
  messageQueueRef,
  links,                    \* the WebSockets constructed so far
  nLinks,
  reconnTimers,             \* pending reconnect timers
  connTimers,               \* pending connection-timeout timers
  timerDelay,               \* delay each reconnect timer was set with
  baseUrlValid,             \* whether new WebSocket(BASE_URL...) succeeds
  sent,                     \* history: every send() handed to a transport
  wire,                     \* history: raw frames delivered since the last clear
  lastOp,                   \* history: the callback that ran last
  unmounted,                \* whether the effect cleanup of the hook has run
  cfg                       \* the bounds and input sets of the behaviour

vars == << status, error, userId, pubUsername, pubChannel, pubAttempt,
           messages, wsRef, reconnectAttemptsRef, reconnectTimeoutRef,
           connectionTimeoutRef, shouldReconnectRef, connectionParamsRef,
           messageQueueRef, links, nLinks, reconnTimers, connTimers,
           timerDelay, baseUrlValid, sent, wire, lastOp, unmounted, cfg >>

LinkIds == 1..cfg.links

\* ----------------------------------------------------------------- helpers
Min(a, b) == IF a < b THEN a ELSE b

Err(text, a, b) == [text |-> text, a |-> a, b |-> b]
NoError == Err(Null, 0, 0)

Op(name, ws, arg, ret) == [op |-> name, ws |-> ws, arg |-> arg, ret |-> ret]

NoWs == [readyState |-> "NONE", username |-> "", channel |-> "",
         wasOpen |-> FALSE, closeArg |-> "none"]

\* String.prototype.trim on a character sequence
RECURSIVE TrimLeft(_)
TrimLeft(s) == IF s # <<>> /\ Head(s) = " " THEN TrimLeft(Tail(s)) ELSE s

RECURSIVE TrimRight(_)
TrimRight(s) ==
  IF s # <<>> /\ s[Len(s)] = " " THEN TrimRight(SubSeq(s, 1, Len(s) - 1)) ELSE s

Trim(s) == TrimRight(TrimLeft(s))

\* encodeURIComponent on the names the model uses
EncodeURIComponent(s) == IF s = "Al Ice" THEN "Al%20Ice" ELSE s

\* the server's decoding of a query parameter
DecodeURIComponent(s) == IF s = "Al%20Ice" THEN "Al Ice" ELSE s

\* JSON.stringify of an OutgoingMessage
OutgoingMessage(content) == [type |-> "message", content |-> content]

\* JSON.parse(event.data): threw when the text is not JSON (SyntaxError),
\* isNull when the text is the JSON literal null, else the parsed record
JSONParse(frame) ==
  [threw |-> frame.k = "malformed",
   isNull |-> frame.k = "null",
   value |-> [type |-> frame.type, user_id |-> frame.user_id,
              content |-> frame.content]]

\* the try block of ws.onmessage completes without throwing: JSON.parse
\* returned, and reading message.type did not raise a TypeError on null
OnMessageCompletes(frame) == ~JSONParse(frame).threw /\ ~JSONParse(frame).isNull

\* mutant of getReconnectDelay: wraps the index around the schedule instead
\* of saturating at its last entry
getReconnectDelayWrap(attempt) ==
  RECONNECT_DELAYS[(attempt % Len(RECONNECT_DELAYS)) + 1]

getReconnectDelay(attempt) ==
  RECONNECT_DELAYS[Min(attempt, Len(RECONNECT_DELAYS) - 1) + 1]

\* mutant of CloseErrorMessage: tests only 1000 as the silent code, so that
\* 1005 (no status received) is reported like any other code
CloseErrorMessageOnly1000(code) ==
  CASE code = 1006 -> Err("Connection lost unexpectedly", 0, 0)
    [] code = 1001 -> Err("Server is going away", 0, 0)
    [] code # 1000 -> Err("Connection closed (code: N)", code, 0)
    [] OTHER -> NoError

\* the error text ws.onclose derives from the close code
CloseErrorMessage(code) ==
  CASE code = 1006 -> Err("Connection lost unexpectedly", 0, 0)
    [] code = 1001 -> Err("Server is going away", 0, 0)
    [] code # 1000 /\ code # 1005 -> Err("Connection closed (code: N)", code, 0)
    [] OTHER -> NoError

\* WebSocket.close(code?) on Link l of the link table ls
WsClose(ls, l, arg) ==
  IF ls[l].readyState \in {"CONNECTING", "OPEN"}
  THEN [ls EXCEPT ![l].readyState = "CLOSING", ![l].closeArg = arg]
  ELSE ls

\* clearTimeout(id) on a set of pending timers
ClearTimeout(pending, id) == pending \ {id}


\* ------------------------------------------------------------ initial state
InitWith(c) ==
  /\ cfg = c
  /\ status = "disconnected"
  /\ error = NoError
  /\ userId = Null
  /\ pubUsername = ""
  /\ pubChannel = "general"
  /\ pubAttempt = 0
  /\ messages = <<>>
  /\ wsRef = NoLink
  /\ reconnectAttemptsRef = 0
  /\ reconnectTimeoutRef = 0
  /\ connectionTimeoutRef = 0
  /\ shouldReconnectRef = FALSE
  /\ connectionParamsRef = [username |-> "", channel |-> "general"]
  /\ messageQueueRef = <<>>
  /\ links = [l \in LinkIds |-> NoWs]
  /\ nLinks = 0
  /\ reconnTimers = {}
  /\ connTimers = {}
  /\ timerDelay = [l \in LinkIds |-> 0]
  /\ baseUrlValid \in BOOLEAN
  /\ sent = <<>>
  /\ wire = <<>>
  /\ lastOp = Op("init", NoLink, <<>>, FALSE)
  /\ unmounted = FALSE

\* ------------------------------------------------ internal pieces of the hook

\* clearTimeouts(): the pending timers and the two refs afterwards
clearTimeouts ==
  [reconn |-> IF reconnectTimeoutRef # 0
              THEN ClearTimeout(reconnTimers, reconnectTimeoutRef)
              ELSE reconnTimers,
   conn |-> IF connectionTimeoutRef # 0
            THEN ClearTimeout(connTimers, connectionTimeoutRef)
            ELSE connTimers,
   reconnRef |-> 0,
   connRef |-> 0]

\* mutant of flushMessageQueue: takes the payloads with pop() instead of
\* shift(), so the newest queued payload is sent first
flushMessageQueueLifo(ls, ref) ==
  IF ref # NoLink /\ ls[ref].readyState = "OPEN"
  THEN [out |-> [i \in 1..Len(messageQueueRef) |->
                   [ws |-> ref,
                    data |-> OutgoingMessage(
                       messageQueueRef[Len(messageQueueRef) + 1 - i])]],
        queue |-> <<>>]
  ELSE [out |-> <<>>, queue |-> messageQueueRef]

\* flushMessageQueue() with wsRef.current = ref on link table ls:
\* what is handed to send(), and the queue afterwards
flushMessageQueue(ls, ref) ==
  IF ref # NoLink /\ ls[ref].readyState = "OPEN"
  THEN [out |-> [i \in 1..Len(SelectSeq(messageQueueRef, LAMBDA c : c # <<>>)) |->
                   [ws |-> ref,
                    data |-> OutgoingMessage(
                       SelectSeq(messageQueueRef, LAMBDA c : c # <<>>)[i])]],
        queue |-> <<>>]
  ELSE [out |-> <<>>, queue |-> messageQueueRef]

\* connectInternal(username, channel), entered with the pending connection
\* timers cTimers and connectionTimeoutRef.current = cRef
connectInternal(username, channel, cTimers, cRef) ==
  LET closed == IF wsRef # NoLink THEN WsClose(links, wsRef, "default") ELSE links
      ws == nLinks + 1
  IN
  /\ pubUsername' = username
  /\ pubChannel' = channel
  /\ userId' = Null
  /\ pubAttempt' = reconnectAttemptsRef'
  /\ IF baseUrlValid
     THEN /\ nLinks < cfg.links
          /\ nLinks' = ws
          /\ links' = [closed EXCEPT ![ws] =
                         [readyState |-> "CONNECTING",
                          username |-> EncodeURIComponent(username),
                          channel |-> EncodeURIComponent(channel),
                          wasOpen |-> FALSE, closeArg |-> "none"]]
          /\ wsRef' = ws
          /\ connTimers' = cTimers \cup {ws}
          /\ connectionTimeoutRef' = ws
          /\ status' = "connecting"
          /\ error' = NoError
     ELSE /\ nLinks' = nLinks
          /\ links' = closed
          /\ wsRef' = NoLink
          /\ connTimers' = cTimers
          /\ connectionTimeoutRef' = cRef
          /\ status' = "error"
          /\ error' = Err("Failed to initialize connection", 0, 0)

\* ---------------------------------------------------------- public commands
\* mutant of connect: a new connection also empties the inbound log
connectClearsLog(username, channel) ==
  LET t == clearTimeouts IN
  /\ reconnTimers' = t.reconn
  /\ reconnectTimeoutRef' = t.reconnRef
  /\ shouldReconnectRef' = TRUE
  /\ connectionParamsRef' = [username |-> username, channel |-> channel]
  /\ reconnectAttemptsRef' = 0
  /\ messageQueueRef' = <<>>
  /\ connectInternal(username, channel, t.conn, t.connRef)
  /\ lastOp' = Op("connect", wsRef', <<username, channel>>, TRUE)
  /\ messages' = <<>>
  /\ UNCHANGED << timerDelay, baseUrlValid, sent, wire >>

connect(username, channel) ==
  LET t == clearTimeouts IN
  /\ reconnTimers' = t.reconn
  /\ reconnectTimeoutRef' = t.reconnRef
  /\ shouldReconnectRef' = TRUE
  /\ connectionParamsRef' = [username |-> username, channel |-> channel]
  /\ reconnectAttemptsRef' = 0
  /\ messageQueueRef' = <<>>
  /\ connectInternal(username, channel, t.conn, t.connRef)
  /\ lastOp' = Op("connect", wsRef', <<username, channel>>, TRUE)
  /\ UNCHANGED << messages, timerDelay, baseUrlValid, sent, wire >>

disconnect ==
  LET t == clearTimeouts IN
  /\ reconnTimers' = t.reconn
  /\ reconnectTimeoutRef' = t.reconnRef
  /\ connTimers' = t.conn
  /\ connectionTimeoutRef' = t.connRef
  /\ shouldReconnectRef' = FALSE
  /\ reconnectAttemptsRef' = 0
  /\ messageQueueRef' = <<>>
  /\ links' = IF wsRef # NoLink THEN WsClose(links, wsRef, "1000") ELSE links
  /\ wsRef' = NoLink
  /\ status' = "disconnected"
  /\ error' = NoError
  /\ pubAttempt' = 0
  /\ lastOp' = Op("disconnect", wsRef, <<>>, TRUE)
  /\ UNCHANGED << userId, pubUsername, pubChannel, messages, connectionParamsRef,
                  nLinks, timerDelay, baseUrlValid, sent, wire >>

\* mutant of retryConnection: passes the stored identity as it is, without
\* the 'Anonymous' and 'general' fallbacks
retryConnectionNoFallback ==
  IF status = "error" \/ status = "disconnected"
  THEN /\ reconnectAttemptsRef' = 0
       /\ shouldReconnectRef' = TRUE
       /\ connectInternal(connectionParamsRef.username,
                          connectionParamsRef.channel,
                          connTimers, connectionTimeoutRef)
       /\ lastOp' = Op("retryConnection", wsRef', <<>>, TRUE)
       /\ UNCHANGED << messages, reconnectTimeoutRef, connectionParamsRef,
                       messageQueueRef, reconnTimers, timerDelay, baseUrlValid,
                       sent, wire >>
  ELSE /\ lastOp' = Op("retryConnection", wsRef, <<>>, FALSE)
       /\ UNCHANGED << status, error, userId, pubUsername, pubChannel, pubAttempt,
                       messages, wsRef, reconnectAttemptsRef, reconnectTimeoutRef,
                       connectionTimeoutRef, shouldReconnectRef,
                       connectionParamsRef, messageQueueRef, links, nLinks,
                       reconnTimers, connTimers, timerDelay, baseUrlValid,
                       sent, wire >>

retryConnection ==
  IF status = "error" \/ status = "disconnected"
  THEN /\ reconnectAttemptsRef' = 0
       /\ shouldReconnectRef' = TRUE
       /\ connectInternal(
            IF connectionParamsRef.username # "" THEN connectionParamsRef.username
                                                 ELSE "Anonymous",
            IF connectionParamsRef.channel # "" THEN connectionParamsRef.channel
                                                ELSE "general",
            connTimers, connectionTimeoutRef)
       /\ lastOp' = Op("retryConnection", wsRef', <<>>, TRUE)
       /\ UNCHANGED << messages, reconnectTimeoutRef, connectionParamsRef,
                       messageQueueRef, reconnTimers, timerDelay, baseUrlValid,
                       sent, wire >>
  ELSE /\ lastOp' = Op("retryConnection", wsRef, <<>>, FALSE)
       /\ UNCHANGED << status, error, userId, pubUsername, pubChannel, pubAttempt,
                       messages, wsRef, reconnectAttemptsRef, reconnectTimeoutRef,
                       connectionTimeoutRef, shouldReconnectRef,
                       connectionParamsRef, messageQueueRef, links, nLinks,
                       reconnTimers, connTimers, timerDelay, baseUrlValid,
                       sent, wire >>


\* mutant of sendMessage: tests !content instead of !content.trim()
sendMessageNoTrimCheck(content) ==
  IF content = <<>>
  THEN /\ lastOp' = Op("sendMessage", wsRef, content, FALSE)
       /\ UNCHANGED << messageQueueRef, sent >>
  ELSE IF wsRef # NoLink /\ links[wsRef].readyState = "OPEN"
  THEN /\ sent' = Append(sent, [ws |-> wsRef,
                                data |-> OutgoingMessage(Trim(content))])
       /\ lastOp' = Op("sendMessage", wsRef, content, TRUE)
       /\ UNCHANGED messageQueueRef
  ELSE IF status = "connecting" /\ shouldReconnectRef
  THEN /\ messageQueueRef' = Append(messageQueueRef, Trim(content))
       /\ lastOp' = Op("sendMessage", wsRef, content, TRUE)
       /\ UNCHANGED sent
  ELSE /\ lastOp' = Op("sendMessage", wsRef, content, FALSE)
       /\ UNCHANGED << messageQueueRef, sent >>

sendMessageAnyState(content) ==
  IF Trim(content) = <<>>
  THEN /\ lastOp' = Op("sendMessage", wsRef, content, FALSE)
       /\ UNCHANGED << messageQueueRef, sent >>
  ELSE IF wsRef # NoLink
  THEN /\ sent' = Append(sent, [ws |-> wsRef,
                                data |-> OutgoingMessage(Trim(content))])
       /\ lastOp' = Op("sendMessage", wsRef, content, TRUE)
       /\ UNCHANGED messageQueueRef
  ELSE IF status = "connecting" /\ shouldReconnectRef
  THEN /\ messageQueueRef' = Append(messageQueueRef, Trim(content))
       /\ lastOp' = Op("sendMessage", wsRef, content, TRUE)
       /\ UNCHANGED sent
  ELSE /\ lastOp' = Op("sendMessage", wsRef, content, FALSE)
       /\ UNCHANGED << messageQueueRef, sent >>

sendMessage(content) ==
  IF Trim(content) = <<>>
  THEN /\ lastOp' = Op("sendMessage", wsRef, content, FALSE)
       /\ UNCHANGED << messageQueueRef, sent >>
  ELSE IF wsRef # NoLink /\ links[wsRef].readyState = "OPEN"
  THEN /\ sent' = Append(sent, [ws |-> wsRef,
                                data |-> OutgoingMessage(Trim(content))])
       /\ lastOp' = Op("sendMessage", wsRef, content, TRUE)
       /\ UNCHANGED messageQueueRef
  ELSE IF status = "connecting" /\ shouldReconnectRef
  THEN /\ messageQueueRef' = Append(messageQueueRef, Trim(content))
       /\ lastOp' = Op("sendMessage", wsRef, content, TRUE)
       /\ UNCHANGED sent
  ELSE /\ lastOp' = Op("sendMessage", wsRef, content, FALSE)
       /\ UNCHANGED << messageQueueRef, sent >>

SendMessage(content) ==
  /\ Len(sent) + Len(messageQueueRef) < cfg.sent
  /\ sendMessage(content)
  /\ UNCHANGED << status, error, userId, pubUsername, pubChannel, pubAttempt,
                  messages, wsRef, reconnectAttemptsRef, reconnectTimeoutRef,
                  connectionTimeoutRef, shouldReconnectRef, connectionParamsRef,
                  links, nLinks, reconnTimers, connTimers, timerDelay,
                  baseUrlValid, wire >>

clearMessages ==
  /\ messages' = <<>>
  /\ wire' = <<>>
  /\ lastOp' = Op("clearMessages", wsRef, <<>>, TRUE)
  /\ UNCHANGED << status, error, userId, pubUsername, pubChannel, pubAttempt,
                  wsRef, reconnectAttemptsRef, reconnectTimeoutRef,
                  connectionTimeoutRef, shouldReconnectRef, connectionParamsRef,
                  messageQueueRef, links, nLinks, reconnTimers, connTimers,
                  timerDelay, baseUrlValid, sent >>

\* the cleanup of the effect, run when the component unmounts: it clears the
\* two timers held in the refs and closes the active Link; it leaves
\* shouldReconnectRef and wsRef as they are.  The published state of an
\* unmounted component is no longer observed.
unmount ==
  LET t == clearTimeouts IN
  /\ ~unmounted
  /\ unmounted' = TRUE
  /\ reconnTimers' = t.reconn
  /\ reconnectTimeoutRef' = t.reconnRef
  /\ connTimers' = t.conn
  /\ connectionTimeoutRef' = t.connRef
  /\ links' = IF wsRef # NoLink THEN WsClose(links, wsRef, "1000") ELSE links
  /\ lastOp' = Op("unmount", wsRef, <<>>, TRUE)
  /\ UNCHANGED << status, error, userId, pubUsername, pubChannel, pubAttempt,
                  messages, wsRef, reconnectAttemptsRef, shouldReconnectRef,
                  connectionParamsRef, messageQueueRef, nLinks, timerDelay,
                  baseUrlValid, sent, wire >>

\* ------------------------------------------------------- WebSocket handlers

\* ws.onopen of Link ws: the transport has set readyState to OPEN.
\* The updater passed to setConnectionInfo by updateStatus reads
\* reconnectAttemptsRef.current when React runs it: at the call (eager) or
\* at the next render, after the handler has reset the counter.
\* mutant of onopen: leaves out reconnectAttemptsRef.current = 0
onopenKeepsAttempts(ws, eager) ==
  LET opened == [links EXCEPT ![ws].readyState = "OPEN", ![ws].wasOpen = TRUE]
      f == flushMessageQueue(opened, wsRef)
  IN
  /\ links[ws].readyState = "CONNECTING"
  /\ links' = opened
  /\ connTimers' = ClearTimeout(connTimers, connectionTimeoutRef)
  /\ status' = "connected"
  /\ error' = NoError
  /\ pubAttempt' = reconnectAttemptsRef
  /\ reconnectAttemptsRef' = reconnectAttemptsRef
  /\ sent' = sent \o f.out
  /\ messageQueueRef' = f.queue
  /\ lastOp' = Op("onopen", ws, <<Len(f.out)>>, TRUE)
  /\ UNCHANGED << userId, pubUsername, pubChannel, messages, wsRef,
                  reconnectTimeoutRef, connectionTimeoutRef, shouldReconnectRef,
                  connectionParamsRef, nLinks, reconnTimers, timerDelay,
                  baseUrlValid, wire >>

onopen(ws, eager) ==
  LET opened == [links EXCEPT ![ws].readyState = "OPEN", ![ws].wasOpen = TRUE]
      f == flushMessageQueue(opened, wsRef)
  IN
  /\ links[ws].readyState = "CONNECTING"
  /\ links' = opened
  /\ connTimers' = ClearTimeout(connTimers, connectionTimeoutRef)
  /\ status' = "connected"
  /\ error' = NoError
  /\ pubAttempt' = IF eager THEN reconnectAttemptsRef ELSE 0
  /\ reconnectAttemptsRef' = 0
  /\ sent' = sent \o f.out
  /\ messageQueueRef' = f.queue
  /\ lastOp' = Op("onopen", ws, <<Len(f.out)>>, TRUE)
  /\ UNCHANGED << userId, pubUsername, pubChannel, messages, wsRef,
                  reconnectTimeoutRef, connectionTimeoutRef, shouldReconnectRef,
                  connectionParamsRef, nLinks, reconnTimers, timerDelay,
                  baseUrlValid, wire >>

\* mutant of onmessageEffect: without the try/catch around JSON.parse, a
\* frame that does not parse is appended as an empty message
onmessageEffectKeepsUnparsed(frame) ==
  IF JSONParse(frame).threw
  THEN [messages |-> Append(messages, [type |-> "", user_id |-> "", content |-> ""]),
        userId |-> userId]
  ELSE IF OnMessageCompletes(frame)
  THEN [messages |-> Append(messages, JSONParse(frame).value),
        userId |-> IF JSONParse(frame).value.type = "user_connected"
                      /\ JSONParse(frame).value.user_id # ""
                   THEN JSONParse(frame).value.user_id ELSE userId]
  ELSE [messages |-> messages, userId |-> userId]

\* mutant of onmessageEffect: puts the new message in front of the log
onmessageEffectPrepend(frame) ==
  IF OnMessageCompletes(frame)
  THEN [messages |-> <<JSONParse(frame).value>> \o messages,
        userId |-> IF JSONParse(frame).value.type = "user_connected"
                      /\ JSONParse(frame).value.user_id # ""
                   THEN JSONParse(frame).value.user_id ELSE userId]
  ELSE [messages |-> messages, userId |-> userId]

\* what ws.onmessage does to the messages state and to userId
onmessageEffect(frame) ==
  IF OnMessageCompletes(frame)
  THEN [messages |-> Append(messages, JSONParse(frame).value),
        userId |-> IF JSONParse(frame).value.type = "user_connected"
                      /\ JSONParse(frame).value.user_id # ""
                   THEN JSONParse(frame).value.user_id ELSE userId]
  ELSE [messages |-> messages, userId |-> userId]

\* ws.onmessage of Link ws: message events are fired only while OPEN
onmessage(ws, frame) ==
  /\ links[ws].readyState = "OPEN"
  /\ Len(wire) < cfg.wire
  /\ wire' = Append(wire, frame)
  /\ messages' = onmessageEffect(frame).messages
  /\ userId' = onmessageEffect(frame).userId
  /\ lastOp' = Op("onmessage", ws, <<>>, OnMessageCompletes(frame))
  /\ UNCHANGED << status, error, pubUsername, pubChannel, pubAttempt, wsRef,
                  reconnectAttemptsRef, reconnectTimeoutRef,
                  connectionTimeoutRef, shouldReconnectRef, connectionParamsRef,
                  messageQueueRef, links, nLinks, reconnTimers, connTimers,
                  timerDelay, baseUrlValid, sent >>

\* ws.onerror of Link ws: only logs; the error event of a failing Link is
\* fired before its close event
onerror(ws) ==
  /\ links[ws].readyState \in {"CONNECTING", "OPEN", "CLOSING"}
  /\ lastOp' = Op("onerror", ws, <<>>, TRUE)
  /\ UNCHANGED << status, error, userId, pubUsername, pubChannel, pubAttempt,
                  messages, wsRef, reconnectAttemptsRef, reconnectTimeoutRef,
                  connectionTimeoutRef, shouldReconnectRef, connectionParamsRef,
                  messageQueueRef, links, nLinks, reconnTimers, connTimers,
                  timerDelay, baseUrlValid, sent, wire >>

\* the close event of Link ws can carry code: a Link that never opened
\* closes with 1006
CloseCodeOf(ws) == IF links[ws].wasOpen THEN CloseCodes ELSE {1006}

\* mutant of onclose: increments the counter before it computes the delay
oncloseDelayAfterIncrement(ws, code) ==
  /\ links[ws].readyState \in {"CONNECTING", "OPEN", "CLOSING"}
  /\ code \in CloseCodeOf(ws)
  /\ links' = [links EXCEPT ![ws].readyState = "CLOSED"]
  /\ connTimers' = ClearTimeout(connTimers, connectionTimeoutRef)
  /\ userId' = Null
  /\ wsRef' = NoLink
  /\ IF shouldReconnectRef /\ reconnectAttemptsRef < MAX_RECONNECT_ATTEMPTS
     THEN /\ reconnectAttemptsRef' = reconnectAttemptsRef + 1
          /\ status' = "connecting"
          /\ error' = Err("Reconnecting in Ns... (a/MAX)",
                          getReconnectDelay(reconnectAttemptsRef + 1) \div 1000,
                          reconnectAttemptsRef')
          /\ pubAttempt' = reconnectAttemptsRef'
          /\ reconnTimers' = reconnTimers \cup {ws}
          /\ reconnectTimeoutRef' = ws
          /\ timerDelay' = [timerDelay EXCEPT
                              ![ws] = getReconnectDelay(reconnectAttemptsRef + 1)]
     ELSE /\ IF shouldReconnectRef
             THEN /\ status' = "error"
                  /\ error' = Err("Unable to connect. Please check if the server is running.", 0, 0)
             ELSE /\ status' = "disconnected"
                  /\ error' = CloseErrorMessage(code)
          /\ pubAttempt' = reconnectAttemptsRef
          /\ UNCHANGED << reconnectAttemptsRef, reconnTimers,
                          reconnectTimeoutRef, timerDelay >>
  /\ lastOp' = Op("onclose", ws, <<code>>, TRUE)
  /\ UNCHANGED << pubUsername, pubChannel, messages, connectionTimeoutRef,
                  shouldReconnectRef, connectionParamsRef, messageQueueRef,
                  nLinks, baseUrlValid, sent, wire >>

\* mutant of onclose: with the attempts exhausted it schedules nothing and
\* publishes nothing, so the status stays as it was
oncloseSilentGiveUp(ws, code) ==
  /\ links[ws].readyState \in {"CONNECTING", "OPEN", "CLOSING"}
  /\ code \in CloseCodeOf(ws)
  /\ links' = [links EXCEPT ![ws].readyState = "CLOSED"]
  /\ connTimers' = ClearTimeout(connTimers, connectionTimeoutRef)
  /\ userId' = Null
  /\ wsRef' = NoLink
  /\ IF shouldReconnectRef /\ reconnectAttemptsRef < MAX_RECONNECT_ATTEMPTS
     THEN /\ reconnectAttemptsRef' = reconnectAttemptsRef + 1
          /\ status' = "connecting"
          /\ error' = Err("Reconnecting in Ns... (a/MAX)",
                          getReconnectDelay(reconnectAttemptsRef) \div 1000,
                          reconnectAttemptsRef')
          /\ pubAttempt' = reconnectAttemptsRef'
          /\ reconnTimers' = reconnTimers \cup {ws}
          /\ reconnectTimeoutRef' = ws
          /\ timerDelay' = [timerDelay EXCEPT
                              ![ws] = getReconnectDelay(reconnectAttemptsRef)]
     ELSE /\ IF shouldReconnectRef
             THEN UNCHANGED << status, error >>
             ELSE /\ status' = "disconnected"
                  /\ error' = CloseErrorMessage(code)
          /\ pubAttempt' = reconnectAttemptsRef
          /\ UNCHANGED << reconnectAttemptsRef, reconnTimers,
                          reconnectTimeoutRef, timerDelay >>
  /\ lastOp' = Op("onclose", ws, <<code>>, TRUE)
  /\ UNCHANGED << pubUsername, pubChannel, messages, connectionTimeoutRef,
                  shouldReconnectRef, connectionParamsRef, messageQueueRef,
                  nLinks, baseUrlValid, sent, wire >>

oncloseAttemptOffByOne(ws, code) ==
  /\ links[ws].readyState \in {"CONNECTING", "OPEN", "CLOSING"}
  /\ code \in CloseCodeOf(ws)
  /\ links' = [links EXCEPT ![ws].readyState = "CLOSED"]
  /\ connTimers' = ClearTimeout(connTimers, connectionTimeoutRef)
  /\ userId' = Null
  /\ wsRef' = NoLink
  /\ IF shouldReconnectRef /\ reconnectAttemptsRef <= MAX_RECONNECT_ATTEMPTS
     THEN /\ reconnectAttemptsRef' = reconnectAttemptsRef + 1
          /\ status' = "connecting"
          /\ error' = Err("Reconnecting in Ns... (a/MAX)",
                          getReconnectDelay(reconnectAttemptsRef) \div 1000,
                          reconnectAttemptsRef')
          /\ pubAttempt' = reconnectAttemptsRef'
          /\ reconnTimers' = reconnTimers \cup {ws}
          /\ reconnectTimeoutRef' = ws
          /\ timerDelay' = [timerDelay EXCEPT
                              ![ws] = getReconnectDelay(reconnectAttemptsRef)]
     ELSE /\ IF shouldReconnectRef
             THEN /\ status' = "error"
                  /\ error' = Err("Unable to connect. Please check if the server is running.", 0, 0)
             ELSE /\ status' = "disconnected"
                  /\ error' = CloseErrorMessage(code)
          /\ pubAttempt' = reconnectAttemptsRef
          /\ UNCHANGED << reconnectAttemptsRef, reconnTimers,
                          reconnectTimeoutRef, timerDelay >>
  /\ lastOp' = Op("onclose", ws, <<code>>, TRUE)
  /\ UNCHANGED << pubUsername, pubChannel, messages, connectionTimeoutRef,
                  shouldReconnectRef, connectionParamsRef, messageQueueRef,
                  nLinks, baseUrlValid, sent, wire >>

\* ws.onclose of Link ws: the transport has set readyState to CLOSED
onclose(ws, code) ==
  /\ links[ws].readyState \in {"CONNECTING", "OPEN", "CLOSING"}
  /\ code \in CloseCodeOf(ws)
  /\ links' = [links EXCEPT ![ws].readyState = "CLOSED"]
  /\ connTimers' = ClearTimeout(connTimers, connectionTimeoutRef)
  /\ userId' = Null
  /\ wsRef' = NoLink
  /\ IF shouldReconnectRef /\ reconnectAttemptsRef < MAX_RECONNECT_ATTEMPTS
     THEN /\ reconnectAttemptsRef' = reconnectAttemptsRef + 1
          /\ status' = "connecting"
          /\ error' = Err("Reconnecting in Ns... (a/MAX)",
                          getReconnectDelay(reconnectAttemptsRef) \div 1000,
                          reconnectAttemptsRef')
          /\ pubAttempt' = reconnectAttemptsRef'
          /\ reconnTimers' = reconnTimers \cup {ws}
          /\ reconnectTimeoutRef' = ws
          /\ timerDelay' = [timerDelay EXCEPT
                              ![ws] = getReconnectDelay(reconnectAttemptsRef)]
     ELSE /\ IF shouldReconnectRef
             THEN /\ status' = "error"
                  /\ error' = Err("Unable to connect. Please check if the server is running.", 0, 0)
             ELSE /\ status' = "disconnected"
                  /\ error' = CloseErrorMessage(code)
          /\ pubAttempt' = reconnectAttemptsRef
          /\ UNCHANGED << reconnectAttemptsRef, reconnTimers,
                          reconnectTimeoutRef, timerDelay >>
  /\ lastOp' = Op("onclose", ws, <<code>>, TRUE)
  /\ UNCHANGED << pubUsername, pubChannel, messages, connectionTimeoutRef,
                  shouldReconnectRef, connectionParamsRef, messageQueueRef,
                  nLinks, baseUrlValid, sent, wire >>

\* ------------------------------------------------------------------- timers

\* the callback of the connection timeout set for Link ws
connectionTimeout(ws) ==
  /\ ws \in connTimers
  /\ connTimers' = connTimers \ {ws}
  /\ IF links[ws].readyState # "OPEN"
     THEN /\ links' = WsClose(links, ws, "default")
          /\ status' = "error"
          /\ error' = Err("Connection timeout - server may be unavailable", 0, 0)
          /\ pubAttempt' = reconnectAttemptsRef
     ELSE UNCHANGED << links, status, error, pubAttempt >>
  /\ lastOp' = Op("connectionTimeout", ws, <<>>, TRUE)
  /\ UNCHANGED << userId, pubUsername, pubChannel, messages, wsRef,
                  reconnectAttemptsRef, reconnectTimeoutRef,
                  connectionTimeoutRef, shouldReconnectRef, connectionParamsRef,
                  messageQueueRef, nLinks, reconnTimers, timerDelay,
                  baseUrlValid, sent, wire >>

\* mutant of reconnectTimer: starts the new attempt with an empty queue, as
\* the public connect does
reconnectTimerClearsQueue(t) ==
  /\ t \in reconnTimers
  /\ reconnTimers' = reconnTimers \ {t}
  /\ reconnectAttemptsRef' = reconnectAttemptsRef
  /\ messageQueueRef' = <<>>
  /\ connectInternal(connectionParamsRef.username, connectionParamsRef.channel,
                     connTimers, connectionTimeoutRef)
  /\ lastOp' = Op("reconnectTimer", wsRef', <<t>>, TRUE)
  /\ UNCHANGED << messages, reconnectTimeoutRef, shouldReconnectRef,
                  connectionParamsRef, timerDelay, baseUrlValid, sent, wire >>

\* the callback of the reconnect timer set by the close handler of Link t
reconnectTimer(t) ==
  /\ t \in reconnTimers
  /\ reconnTimers' = reconnTimers \ {t}
  /\ reconnectAttemptsRef' = reconnectAttemptsRef
  /\ connectInternal(connectionParamsRef.username, connectionParamsRef.channel,
                     connTimers, connectionTimeoutRef)
  /\ lastOp' = Op("reconnectTimer", wsRef', <<t>>, TRUE)
  /\ UNCHANGED << messages, reconnectTimeoutRef, shouldReconnectRef,
                  connectionParamsRef, messageQueueRef, timerDelay,
                  baseUrlValid, sent, wire >>

\* ------------------------------------------------------------ specification
\* the commands are callable only while the component is mounted
Connect == ~unmounted /\ \E id \in cfg.idents : connect(id[1], id[2]) /\ UNCHANGED << cfg, unmounted >>
Disconnect == ~unmounted /\ disconnect /\ UNCHANGED << cfg, unmounted >>
RetryConnection == ~unmounted /\ retryConnection /\ UNCHANGED << cfg, unmounted >>
Send == ~unmounted /\ \E c \in Contents : SendMessage(c) /\ UNCHANGED << cfg, unmounted >>
ClearMessages == ~unmounted /\ clearMessages /\ UNCHANGED << cfg, unmounted >>
LinkOpen == \E ws \in LinkIds, eager \in BOOLEAN : onopen(ws, eager) /\ UNCHANGED << cfg, unmounted >>
LinkMessage == \E ws \in LinkIds, f \in Frames : onmessage(ws, f) /\ UNCHANGED << cfg, unmounted >>
LinkError == \E ws \in LinkIds : onerror(ws) /\ UNCHANGED << cfg, unmounted >>
SendOne == ~unmounted /\ SendMessage(<<" ", "b", " ">>) /\ UNCHANGED << cfg, unmounted >>
LinkMessageOne ==
  \E ws \in LinkIds :
    /\ onmessage(ws, [k |-> "object", type |-> "user_connected",
                      user_id |-> "u1", content |-> "joined"])
    /\ UNCHANGED << cfg, unmounted >>
LinkClose == \E ws \in LinkIds, code \in cfg.codes : onclose(ws, code) /\ UNCHANGED << cfg, unmounted >>
ConnectionTimeout == \E ws \in LinkIds : connectionTimeout(ws) /\ UNCHANGED << cfg, unmounted >>
ReconnectTimer == \E t \in LinkIds : reconnectTimer(t) /\ UNCHANGED << cfg, unmounted >>

\* Spec: the connection lifecycle (commands, Link events, timers)
Init ==
  InitWith([links |-> MaxLinks, sent |-> 0, wire |-> 0,
            idents |-> {<<"Al Ice", "dev">>}, codes |-> {1000, 1006}])

Next ==
  \/ Connect
  \/ Disconnect
  \/ RetryConnection
  \/ LinkOpen
  \/ LinkClose
  \/ ConnectionTimeout
  \/ ReconnectTimer

Spec == Init /\ [][Next]_vars

\* SpecQueue: the lifecycle with sendMessage and the outbound queue
InitQueue ==
  InitWith([links |-> MaxLinksQueue, sent |-> MaxSent, wire |-> 0,
            idents |-> {<<"Al Ice", "dev">>}, codes |-> {1006}])

NextQueue ==
  \/ Connect
  \/ Disconnect
  \/ RetryConnection
  \/ Send
  \/ LinkOpen
  \/ LinkClose
  \/ ConnectionTimeout
  \/ ReconnectTimer

SpecQueue == InitQueue /\ [][NextQueue]_vars

\* SpecLog: the lifecycle with inbound frames and clearMessages
InitLog ==
  InitWith([links |-> MaxLinksLog, sent |-> 0, wire |-> MaxWire,
            idents |-> {<<"Al Ice", "dev">>}, codes |-> {1006}])

NextLog ==
  \/ Connect
  \/ Disconnect
  \/ RetryConnection
  \/ ClearMessages
  \/ LinkOpen
  \/ LinkMessage
  \/ LinkClose
  \/ ConnectionTimeout
  \/ ReconnectTimer

SpecLog == InitLog /\ [][NextLog]_vars


\* SpecRetry: commands are issued only while fewer than MaxCommandLinks Links
\* exist; afterwards every Link closes without opening and only Link closes
\* and timers drive the hook
InitRetry ==
  InitWith([links |-> MaxLinksRetry, sent |-> 0, wire |-> 0,
            idents |-> {<<"Al Ice", "dev">>}, codes |-> {1006}])

ConnectEarly == nLinks < MaxCommandLinks /\ Connect

NextRetry ==
  \/ ConnectEarly
  \/ LinkClose
  \/ ConnectionTimeout
  \/ ReconnectTimer

SpecRetry == InitRetry /\ [][NextRetry]_vars

\* SpecSend: connect, sendMessage, Link events and timers over more Links
InitSend ==
  InitWith([links |-> MaxLinksSend, sent |-> MaxSentSend, wire |-> 0,
            idents |-> {<<"Al Ice", "dev">>}, codes |-> {1006}])

NextSend ==
  \/ Connect
  \/ Send
  \/ LinkOpen
  \/ LinkClose
  \/ ConnectionTimeout
  \/ ReconnectTimer

SpecSend == InitSend /\ [][NextSend]_vars

\* SpecClose: the lifecycle with every kind of close code
InitClose ==
  InitWith([links |-> MaxLinksClose, sent |-> 0, wire |-> 0,
            idents |-> {<<"Al Ice", "dev">>}, codes |-> CloseCodes])

SpecClose == InitClose /\ [][Next]_vars

\* SpecEvents: every command, every Link event and every timer
InitEvents ==
  InitWith([links |-> MaxLinksEvents, sent |-> MaxSentEvents,
            wire |-> MaxWireEvents,
            idents |-> {<<"Al Ice", "dev">>}, codes |-> {1006}])

NextEvents ==
  \/ Connect
  \/ Disconnect
  \/ RetryConnection
  \/ SendOne
  \/ ClearMessages
  \/ LinkOpen
  \/ LinkMessageOne
  \/ LinkError
  \/ LinkClose
  \/ ConnectionTimeout
  \/ ReconnectTimer

SpecEvents == InitEvents /\ [][NextEvents]_vars

\* SpecRequeue: sendMessage and the queue in a session that is connected
\* by connect() and reconnects by itself
SpecRequeue == InitQueue /\ [][NextSend]_vars

\* SpecFrames: inbound frames on the Links of a session that is connected
\* once or twice and reconnects by itself
NextFrames ==
  \/ Connect
  \/ LinkOpen
  \/ LinkMessage
  \/ LinkClose
  \/ ConnectionTimeout
  \/ ReconnectTimer

SpecFrames == InitLog /\ [][NextFrames]_vars

\* SpecIdent: the lifecycle with identities that have empty fields
InitIdent ==
  InitWith([links |-> MaxLinksIdent, sent |-> 0, wire |-> 0,
            idents |-> Idents, codes |-> {1006}])

SpecIdent == InitIdent /\ [][Next]_vars

\* SpecLive: commands and Link opens happen only while fewer than
\* MaxCommandLinks Links exist; afterwards the server is down and only Link
\* closes and timers drive the hook.  Every timer that is pending fires, and
\* every Link that is connecting or closing gets its open or close event;
\* an open Link may stay open.
InitLive ==
  InitWith([links |-> 2 * MaxCommandLinks + MAX_RECONNECT_ATTEMPTS,
            sent |-> 0, wire |-> 0,
            idents |-> {<<"Al Ice", "dev">>}, codes |-> {1006}])

Early == nLinks < MaxCommandLinks

DisconnectEarly == Early /\ Disconnect
RetryConnectionEarly == Early /\ RetryConnection
LinkOpenEarly == Early /\ LinkOpen

NextLive ==
  \/ ConnectEarly
  \/ DisconnectEarly
  \/ RetryConnectionEarly
  \/ LinkOpenEarly
  \/ LinkClose
  \/ ConnectionTimeout
  \/ ReconnectTimer

LinkProgress ==
  (LinkOpenEarly \/ LinkClose) /\ links[lastOp'.ws].readyState # "OPEN"

SpecLive ==
  /\ InitLive
  /\ [][NextLive]_vars
  /\ WF_vars(LinkProgress)
  /\ WF_vars(ConnectionTimeout)
  /\ WF_vars(ReconnectTimer)

\* SpecDelay: getReconnectDelay applied to one attempt count
InitDelay ==
  \E a \in 0..MaxAttempt :
    InitWith([links |-> 1, sent |-> 0, wire |-> 0, idents |-> {}, codes |-> {},
              attempt |-> a])

GetReconnectDelay ==
  /\ lastOp.op = "init"
  /\ lastOp' = Op("getReconnectDelay", NoLink,
                  <<cfg.attempt, getReconnectDelay(cfg.attempt)>>, TRUE)
  /\ UNCHANGED << status, error, userId, pubUsername, pubChannel, pubAttempt,
                  messages, wsRef, reconnectAttemptsRef, reconnectTimeoutRef,
                  connectionTimeoutRef, shouldReconnectRef, connectionParamsRef,
                  messageQueueRef, links, nLinks, reconnTimers, connTimers,
                  timerDelay, baseUrlValid, sent, wire, unmounted, cfg >>

NextDelay == GetReconnectDelay

SpecDelay == InitDelay /\ [][NextDelay]_vars

\* SpecUnmount: the lifecycle with the unmount of the component
Unmount == unmount /\ UNCHANGED cfg

NextUnmount ==
  \/ Next
  \/ Unmount

SpecUnmount == Init /\ [][NextUnmount]_vars

\* ------------------------------------------------------------------ claims
ExplicitStart == {"connect", "retryConnection"}

\* C1: after disconnect() (shouldReconnectRef is false from then until the
\* next connect() or retryConnection()), no step other than an explicit
\* connect() or retryConnection() constructs a Link or publishes the status
\* 'connecting'.
C1_NoLinkAfterDisconnect ==
  [][(~shouldReconnectRef /\ lastOp'.op \notin ExplicitStart)
       => (nLinks' = nLinks /\ status' # "connecting")]_vars


\* the step hands the first n queued payloads, in order and once each, to
\* the send of Links that are open, and removes exactly those from the queue
DrainedFirst(n) ==
  /\ n > 0
  /\ n <= Len(messageQueueRef)
  /\ messageQueueRef' = SubSeq(messageQueueRef, n + 1, Len(messageQueueRef))
  /\ Len(sent') = Len(sent) + n
  /\ SubSeq(sent', 1, Len(sent)) = sent
  /\ \A i \in 1..n :
       /\ sent'[Len(sent) + i].data = OutgoingMessage(messageQueueRef[i])
       /\ links'[sent'[Len(sent) + i].ws].readyState = "OPEN"

QueueKept == messageQueueRef' = messageQueueRef

Enqueued == \E c \in Contents : messageQueueRef' = Append(messageQueueRef, Trim(c))

QueueDiscarded ==
  /\ lastOp'.op \in {"connect", "disconnect"}
  /\ messageQueueRef' = <<>>

\* C2 (as stated): in every step of every operation, a payload leaves the
\* outbound queue only by being handed to the send of an open Link, in
\* insertion order, once, never removed without being sent.
C2_QueueLeavesOnlyBySend ==
  [][QueueKept \/ Enqueued \/ \E n \in 1..Len(messageQueueRef) : DrainedFirst(n)]_vars

\* C2 (amended): a payload leaves the outbound queue either by being handed
\* to the send of an open Link, in insertion order and exactly once, or
\* because connect() or disconnect() empties the queue.
C2_QueueLeavesBySendOrReset ==
  [][QueueKept \/ Enqueued \/ QueueDiscarded
       \/ \E n \in 1..Len(messageQueueRef) : DrainedFirst(n)]_vars

\* C2 witness: a Link has opened and two queued payloads were drained to it
C2_Witness == lastOp.op = "onopen" /\ lastOp.arg = <<2>> /\ Len(sent) = 2

\* the step hands the whole queue to the send of Link ws, in order, once each
DrainedTo(ws) ==
  /\ messageQueueRef' = <<>>
  /\ sent' = sent \o [i \in 1..Len(messageQueueRef) |->
                        [ws |-> ws, data |-> OutgoingMessage(messageQueueRef[i])]]

\* C3: when a Link opens, the payloads queued while no Link was open are
\* handed to that Link's send in enqueue order, each once, and the queue is
\* left empty.
C3_DrainOnOpen == [][lastOp'.op = "onopen" => DrainedTo(lastOp'.ws)]_vars

\* C4: when a Link opens after N failed attempts (reconnectAttemptsRef = N),
\* the attempt counter becomes 0, the connection timeout of that Link is no
\* longer pending, and the payloads accepted in the meantime are handed to
\* the opened Link in the order they were accepted.
C4_OpenAfterFailures ==
  [][lastOp'.op = "onopen"
       => /\ reconnectAttemptsRef' = 0
          /\ lastOp'.ws \notin connTimers'
          /\ DrainedTo(lastOp'.ws)]_vars


ExhaustedRetries ==
  /\ status = "error"
  /\ error.text = "Unable to connect. Please check if the server is running."

\* C5: with every Link closing without opening and no further command, the
\* attempt counter never exceeds MAX_RECONNECT_ATTEMPTS, and once the status
\* is 'error' with the exhausted-retries message no Link is constructed
\* until an explicit retryConnection() or connect().
C5_GivesUpAfterMaxAttempts ==
  /\ [](reconnectAttemptsRef <= MAX_RECONNECT_ATTEMPTS)
  /\ [][(ExhaustedRetries /\ lastOp'.op \notin ExplicitStart)
          => nLinks' = nLinks]_vars

\* C6: when the Link constructed by connect(u, c) closes as the next event,
\* the hook is in Backoff (status 'connecting', exactly one backoff timer
\* pending) with attempt = 1 and identity (u, c) stored; and every Link a
\* backoff timer constructs requests the stored identity.
C6_BackoffAfterFirstClose ==
  /\ [][(lastOp.op = "connect" /\ lastOp'.op = "onclose" /\ lastOp'.ws = lastOp.ws)
          => /\ status' = "connecting"
             /\ reconnectAttemptsRef' = 1
             /\ Cardinality(reconnTimers') = 1
             /\ connectionParamsRef' = [username |-> lastOp.arg[1],
                                        channel |-> lastOp.arg[2]]]_vars
  /\ [][(lastOp'.op = "reconnectTimer" /\ nLinks' # nLinks)
          => /\ status' = "connecting"
             /\ DecodeURIComponent(links'[nLinks'].username)
                  = connectionParamsRef.username
             /\ DecodeURIComponent(links'[nLinks'].channel)
                  = connectionParamsRef.channel]_vars

\* C7: sendMessage(content), content non-empty after trimming: Active with
\* the Link open sends the trimmed payload once and returns true; Opening or
\* Backoff with shouldReconnect queues it and returns true; every other state
\* returns false and leaves queue, Links and status unchanged.
C7_SendMessageContract ==
  [][(lastOp'.op = "sendMessage" /\ Trim(lastOp'.arg) # <<>>)
       => IF status = "connected" /\ wsRef # NoLink
             /\ links[wsRef].readyState = "OPEN"
          THEN /\ sent' = Append(sent, [ws |-> wsRef,
                                        data |-> OutgoingMessage(Trim(lastOp'.arg))])
               /\ messageQueueRef' = messageQueueRef
               /\ lastOp'.ret
          ELSE IF status = "connecting" /\ shouldReconnectRef
          THEN /\ messageQueueRef' = Append(messageQueueRef, Trim(lastOp'.arg))
               /\ sent' = sent
               /\ lastOp'.ret
          ELSE /\ ~lastOp'.ret
               /\ UNCHANGED << messageQueueRef, sent, links, status >>]_vars

\* C8: sendMessage with content that is empty or only whitespace returns
\* false and changes neither the queue, nor what was sent, nor the status,
\* nor the attempt counter, in whatever state it is called.
C8_EmptySendRejected ==
  [][(lastOp'.op = "sendMessage" /\ Trim(lastOp'.arg) = <<>>)
       => /\ ~lastOp'.ret
          /\ UNCHANGED << messageQueueRef, sent, status, reconnectAttemptsRef,
                          links, wsRef >>]_vars

\* C8 witness: a whitespace-only content was rejected while the hook was
\* reconnecting, where a non-empty content would have been queued
C8_Witness ==
  /\ lastOp.op = "sendMessage"
  /\ lastOp.arg = <<" ">>
  /\ ~lastOp.ret
  /\ status = "connecting"
  /\ shouldReconnectRef

\* C9: the published participant id is non-null only when the published
\* status is 'connected'.
C9_UserIdOnlyWhenConnected == userId # Null => status = "connected"

\* the log the hook should hold for the frames of w, keeping those frames
\* for which keep holds
LogOf(w, keep(_)) ==
  [i \in 1..Len(SelectSeq(w, keep)) |-> JSONParse(SelectSeq(w, keep)[i]).value]

\* C10 (as stated): the inbound log is, in order, exactly the frames that
\* JSON.parse accepted since the last clearMessages().
C10_LogIsParsedFrames ==
  messages = LogOf(wire, LAMBDA f : ~JSONParse(f).threw)

\* C10 (amended): the inbound log is, in order, exactly the frames delivered
\* since the last clearMessages() that parse to a value other than null.
C10_LogIsNonNullParsedFrames ==
  messages = LogOf(wire, LAMBDA f : ~JSONParse(f).threw /\ ~JSONParse(f).isNull)

\* C10 witness: two different frames were appended, in arrival order
C10_Witness ==
  /\ lastOp.op = "onmessage"
  /\ Len(messages) = 2
  /\ messages[1].type = "user_connected"
  /\ messages[2].type = "message"

\* C11: for every attempt a >= 0, getReconnectDelay(a) is entry min(a, 4) of
\* the schedule 1000, 2000, 4000, 8000, 16000; it never exceeds 16000 and no
\* smaller attempt has a larger delay.
C11_DelaySchedule ==
  lastOp.op = "getReconnectDelay"
    => /\ lastOp.arg[2] = <<1000, 2000, 4000, 8000, 16000>>[Min(lastOp.arg[1], 4) + 1]
       /\ lastOp.arg[2] <= 16000
       /\ \A b \in 0..lastOp.arg[1] : getReconnectDelay(b) <= lastOp.arg[2]

\* C11 witness: an attempt beyond the end of the schedule got the last entry
C11_Witness ==
  /\ lastOp.op = "getReconnectDelay"
  /\ lastOp.arg[1] > 4
  /\ lastOp.arg[2] = 16000

\* C12: immediately after disconnect(), in whatever state it is called: no
\* reconnect timer and no connection timeout is pending, shouldReconnect is
\* false, the queue is empty, the attempt counter is 0, the active Link (if
\* any) has been asked to close with code 1000, no Link is active and the
\* status is 'disconnected'.
C12_AfterDisconnect ==
  [][lastOp'.op = "disconnect"
       => /\ reconnTimers' = {}
          /\ connTimers' = {}
          /\ ~shouldReconnectRef'
          /\ messageQueueRef' = <<>>
          /\ reconnectAttemptsRef' = 0
          /\ wsRef' = NoLink
          /\ status' = "disconnected"
          /\ wsRef # NoLink
               => /\ links'[wsRef].readyState \notin {"CONNECTING", "OPEN"}
                  /\ links[wsRef].readyState \in {"CONNECTING", "OPEN"}
                       => links'[wsRef].closeArg = "1000"]_vars

\* C13: immediately after connect(u, c), in whatever state it is called:
\* no reconnect timer that was pending is still pending, the queue is empty,
\* the attempt counter is 0, shouldReconnect is true, the stored identity is
\* (u, c), the status is 'connecting', the Link that was active (if any) has
\* been closed, and exactly one Link was constructed, requests (u, c) and is
\* the active Link.
C13_AfterConnect ==
  [][lastOp'.op = "connect"
       => /\ reconnTimers' \cap reconnTimers = {}
          /\ messageQueueRef' = <<>>
          /\ reconnectAttemptsRef' = 0
          /\ shouldReconnectRef'
          /\ connectionParamsRef' = [username |-> lastOp'.arg[1],
                                     channel |-> lastOp'.arg[2]]
          /\ status' = "connecting"
          /\ wsRef # NoLink
               => links'[wsRef].readyState \notin {"CONNECTING", "OPEN"}
          /\ nLinks' = nLinks + 1
          /\ wsRef' = nLinks'
          /\ links'[wsRef'].readyState = "CONNECTING"
          /\ DecodeURIComponent(links'[wsRef'].username) = lastOp'.arg[1]
          /\ DecodeURIComponent(links'[wsRef'].channel) = lastOp'.arg[2]]_vars

\* retryConnection() ran with status 'error' or 'disconnected': the attempt
\* counter is 0, shouldReconnect is true, the stored identity is kept, and
\* (when built holds) one Link was constructed, is the active Link and
\* requests the stored identity with 'Anonymous' for an empty username and
\* 'general' for an empty channel
RetryStarts(built) ==
  /\ reconnectAttemptsRef' = 0
  /\ shouldReconnectRef'
  /\ connectionParamsRef' = connectionParamsRef
  /\ built
       => /\ nLinks' = nLinks + 1
          /\ wsRef' = nLinks'
          /\ links'[wsRef'].readyState = "CONNECTING"
          /\ DecodeURIComponent(links'[wsRef'].username)
               = (IF connectionParamsRef.username = "" THEN "Anonymous"
                  ELSE connectionParamsRef.username)
          /\ DecodeURIComponent(links'[wsRef'].channel)
               = (IF connectionParamsRef.channel = "" THEN "general"
                  ELSE connectionParamsRef.channel)

\* the step changes nothing of the hook
NothingChanged ==
  UNCHANGED << status, error, userId, pubUsername, pubChannel, pubAttempt,
               messages, wsRef, reconnectAttemptsRef, reconnectTimeoutRef,
               connectionTimeoutRef, shouldReconnectRef, connectionParamsRef,
               messageQueueRef, links, nLinks, reconnTimers, connTimers,
               timerDelay, sent >>

C15_TimeoutHandledAsClose ==
  /\ [][(lastOp'.op = "connectionTimeout" /\ ~links[lastOp'.ws].wasOpen)
          => /\ links[lastOp'.ws].readyState = "CONNECTING"
             /\ links'[lastOp'.ws].readyState = "CLOSING"]_vars
  /\ [][(/\ lastOp.op = "connectionTimeout"
          /\ ~links[lastOp.ws].wasOpen
          /\ lastOp'.op = "onclose"
          /\ lastOp'.ws = lastOp.ws)
          => IF shouldReconnectRef /\ reconnectAttemptsRef < MAX_RECONNECT_ATTEMPTS
             THEN /\ status' = "connecting"
                  /\ reconnectAttemptsRef' = reconnectAttemptsRef + 1
                  /\ reconnectTimeoutRef' \in reconnTimers'
             ELSE IF shouldReconnectRef
             THEN ExhaustedRetries'
             ELSE status' = "disconnected"]_vars

\* the step ran connectInternal and new WebSocket(url) threw
ConstructionFailed ==
  /\ lastOp'.op \in {"connect", "retryConnection", "reconnectTimer"}
  /\ lastOp'.ret
  /\ nLinks' = nLinks

\* the attempt counter when the step called the constructor: connect() and
\* retryConnection() reset it first
AttemptAtConstruction ==
  IF lastOp'.op = "reconnectTimer" THEN reconnectAttemptsRef ELSE 0

\* C16: a failure to construct the transport is handled like an immediate
\* failure of that Link: with shouldReconnect and attempt < MAX the attempt
\* counter is incremented and a reconnect timer is scheduled; with the
\* attempts exhausted the hook gives up.
C16_ConstructionFailureIsLinkFailure ==
  [][(ConstructionFailed /\ shouldReconnectRef')
       => IF AttemptAtConstruction < MAX_RECONNECT_ATTEMPTS
          THEN /\ reconnectAttemptsRef' = AttemptAtConstruction + 1
               /\ reconnTimers' # {}
               /\ status' = "connecting"
          ELSE ExhaustedRetries']_vars

\* the step delivered a frame that JSON.parse rejects
UnparsedFrameDelivered ==
  /\ lastOp'.op = "onmessage"
  /\ JSONParse(wire'[Len(wire')]).threw

\* C17: an inbound frame that fails to parse is dropped: the inbound log,
\* the status, the participant id, the attempt counter, the queue, the
\* active Link and the timers are unchanged by it, and a later frame on the
\* same Link is still processed.
C17_UnparsedFrameDropped ==
  /\ [][UnparsedFrameDelivered
          => UNCHANGED << messages, status, error, userId, reconnectAttemptsRef,
                          pubAttempt, messageQueueRef, wsRef, links,
                          reconnTimers, connTimers, reconnectTimeoutRef,
                          connectionTimeoutRef, shouldReconnectRef >>]_vars
  /\ [][(/\ lastOp.op = "onmessage"
          /\ JSONParse(wire[Len(wire)]).threw
          /\ lastOp'.op = "onmessage"
          /\ lastOp'.ws = lastOp.ws
          /\ OnMessageCompletes(wire'[Len(wire')]))
          => messages' = Append(messages, JSONParse(wire'[Len(wire')]).value)]_vars

\* C17 witness: a frame that does not parse was dropped and the next frame
\* on the same Link was appended to the log
C17_Witness ==
  /\ lastOp.op = "onmessage"
  /\ Len(wire) = 2
  /\ JSONParse(wire[1]).threw
  /\ messages = <<[type |-> "message", user_id |-> "", content |-> "hi"]>>
  /\ status = "connected"

\* C18: a transient reconnect (a Link close with shouldReconnect, then the
\* construction of the next Link by the reconnect timer) leaves the contents
\* and the order of the outbound queue unchanged; an explicit connect()
\* empties the queue.
C18_QueueSurvivesReconnect ==
  /\ [][(lastOp'.op = "onclose" /\ shouldReconnectRef)
          => messageQueueRef' = messageQueueRef]_vars
  /\ [][lastOp'.op = "reconnectTimer" => messageQueueRef' = messageQueueRef]_vars
  /\ [][lastOp'.op = "connect" => messageQueueRef' = <<>>]_vars

\* C18 witness: two payloads were queued, the Link closed, and the reconnect
\* timer has constructed the next Link with both still queued in order
C18_Witness ==
  /\ lastOp.op = "reconnectTimer"
  /\ nLinks = 2
  /\ wsRef = 2
  /\ messageQueueRef = << <<"a">>, <<"b">> >>

\* the Link events, the timers and the two commands that never touch the
\* shouldReconnect flag
FlagNeutral ==
  {"onopen", "onmessage", "onerror", "onclose", "connectionTimeout",
   "reconnectTimer", "sendMessage", "clearMessages"}

\* C19: every explicit connect and every successful Link open resets the
\* attempt counter to 0; shouldReconnect is true from an explicit connect
\* until an explicit disconnect; and no Link event, no timer, no sendMessage
\* and no clearMessages changes shouldReconnect.
C19_AttemptResetAndFlag ==
  /\ [][lastOp'.op \in {"connect", "onopen"} => reconnectAttemptsRef' = 0]_vars
  /\ [][lastOp'.op = "connect" => shouldReconnectRef']_vars
  /\ [][(shouldReconnectRef /\ lastOp'.op # "disconnect")
          => shouldReconnectRef']_vars
  /\ [][lastOp'.op \in FlagNeutral
          => shouldReconnectRef' = shouldReconnectRef]_vars

\* C19 witness: a Link opened after one failed attempt: the counter was 1
\* when the handler published the status and is 0 after it
C19_Witness ==
  /\ lastOp.op = "onopen"
  /\ pubAttempt = 1
  /\ reconnectAttemptsRef = 0
  /\ shouldReconnectRef
  /\ status = "connected"

\* the error the claim gives for a close code
ExpectedCloseError(code) ==
  IF code = 1006 THEN Err("Connection lost unexpectedly", 0, 0)
  ELSE IF code = 1001 THEN Err("Server is going away", 0, 0)
  ELSE IF code \in {1000, 1005} THEN NoError
  ELSE Err("Connection closed (code: N)", code, 0)

\* C20: the error text is a function of the close code alone (1006 and 1001
\* have their own texts, 1000 and 1005 give no error, any other code N gives
\* 'Connection closed (code: N)'), and when a Link closes while
\* shouldReconnect is false the status becomes 'disconnected' with exactly
\* that error.
C20_CloseErrorText ==
  [][(lastOp'.op = "onclose" /\ ~shouldReconnectRef)
       => /\ status' = "disconnected"
          /\ error' = ExpectedCloseError(lastOp'.arg[1])]_vars

\* C20 witness: after a disconnect, a Link has closed with a code that has
\* no text of its own and the status is 'disconnected' with the generic text
C20_Witness ==
  /\ lastOp.op = "onclose"
  /\ lastOp.arg = <<4000>>
  /\ ~shouldReconnectRef
  /\ status = "disconnected"
  /\ error = Err("Connection closed (code: N)", 4000, 0)

Settled == status \in {"connected", "error", "disconnected"}

\* a Link whose close event has not been delivered
LiveLink ==
  \E l \in LinkIds : links[l].readyState \in {"CONNECTING", "OPEN", "CLOSING"}

CloseToBackoff ==
  /\ lastOp'.op = "onclose"
  /\ shouldReconnectRef
  /\ reconnectAttemptsRef < MAX_RECONNECT_ATTEMPTS

\* C22 (as stated): when a Link close moves the hook to Backoff, the attempt
\* counter is incremented and the delay of the scheduled timer is
\* getReconnectDelay(a), a being the counter after the increment.
C22_DelayOfIncrementedAttempt ==
  [][CloseToBackoff
       => /\ reconnectAttemptsRef' = reconnectAttemptsRef + 1
          /\ lastOp'.ws \in reconnTimers'
          /\ timerDelay'[lastOp'.ws] = getReconnectDelay(reconnectAttemptsRef')]_vars

\* C22 (amended): the delay of the scheduled timer is getReconnectDelay of
\* the counter before the increment: attempt a (counted from 1) waits the
\* a-th entry of 1000, 2000, 4000, 8000, 16000.
C22_DelayOfAttemptBeforeIncrement ==
  [][CloseToBackoff
       => /\ reconnectAttemptsRef' = reconnectAttemptsRef + 1
          /\ lastOp'.ws \in reconnTimers'
          /\ timerDelay'[lastOp'.ws] = getReconnectDelay(reconnectAttemptsRef)
          /\ timerDelay'[lastOp'.ws]
               = <<1000, 2000, 4000, 8000, 16000>>[reconnectAttemptsRef']]_vars

\* C22 witness: the fifth consecutive close scheduled a timer of 16000 ms
C22_Witness ==
  /\ lastOp.op = "onclose"
  /\ reconnectAttemptsRef = 5
  /\ lastOp.ws \in reconnTimers
  /\ timerDelay[lastOp.ws] = 16000

\* the most recent open published 'connected' and left payloads in the queue
LeftByOpen == status = "connected" /\ messageQueueRef # <<>>

SentOnlyToOpen ==
  /\ Len(sent') >= Len(sent)
  /\ SubSeq(sent', 1, Len(sent)) = sent
  /\ \A i \in (Len(sent) + 1)..Len(sent') :
       links'[sent'[i].ws].readyState = "OPEN"

\* the step is a sendMessage of a non-empty payload while the active Link is
\* not open
SendWhileNotOpen ==
  /\ lastOp'.op = "sendMessage"
  /\ Trim(lastOp'.arg) # <<>>
  /\ ~(wsRef # NoLink /\ links[wsRef].readyState = "OPEN")

\* C24 (as stated): send is invoked only on a Link that is OPEN at that
\* moment, in sendMessage and in the flush; a payload that cannot be sent
\* because the Link is not open is reported as a failure (result false).
C24_NotOpenReportsFailure ==
  [][/\ SentOnlyToOpen
     /\ SendWhileNotOpen => (~lastOp'.ret /\ sent' = sent)]_vars

\* C24 (amended): send is invoked only on a Link that is OPEN at that
\* moment, in sendMessage and in the flush; a payload that cannot be sent
\* because the Link is not open is either appended to the outbound queue
\* with result true (status 'connecting' and shouldReconnect true) or
\* rejected with result false; it is never dropped with result true, and a
\* flush takes from the queue only what it hands to an open Link.
C24_NotOpenQueuesOrFails ==
  [][/\ SentOnlyToOpen
     /\ SendWhileNotOpen
          => /\ sent' = sent
             /\ lastOp'.ret = (status = "connecting" /\ shouldReconnectRef)
             /\ IF lastOp'.ret
                THEN messageQueueRef' = Append(messageQueueRef, Trim(lastOp'.arg))
                ELSE messageQueueRef' = messageQueueRef
     /\ lastOp'.op = "onopen"
          => \/ QueueKept /\ sent' = sent
             \/ \E n \in 1..Len(messageQueueRef) : DrainedFirst(n)]_vars

\* C24 witness: a payload was queued while no Link was open, a Link opened
\* and took it, and a later sendMessage without an open active Link was
\* rejected
C24_Witness ==
  /\ lastOp.op = "sendMessage"
  /\ Trim(lastOp.arg) # <<>>
  /\ ~lastOp.ret
  /\ ~(wsRef # NoLink /\ links[wsRef].readyState = "OPEN")
  /\ Len(sent) = 1
  /\ messageQueueRef = <<>>

\* C25: in every reachable state, under every interleaving of commands,
\* timers and Link events, the attempt counter is at least 0 and at most
\* MAX_RECONNECT_ATTEMPTS (5).
C25_AttemptInRange ==
  /\ reconnectAttemptsRef \in 0..MAX_RECONNECT_ATTEMPTS
  /\ MAX_RECONNECT_ATTEMPTS = 5

\* C25 witness: a close event arrived with the counter at its maximum and
\* left it there
C25_Witness ==
  /\ lastOp.op = "onclose"
  /\ reconnectAttemptsRef = MAX_RECONNECT_ATTEMPTS
  /\ status = "error"
  /\ lastOp.ws \notin reconnTimers

\* the step delivers, on the active Link, a frame of type user_connected
\* that carries a user_id
HandshakeOnActiveLink ==
  /\ lastOp'.op = "onmessage"
  /\ lastOp'.ws = wsRef
  /\ wire'[Len(wire')].k = "object"
  /\ wire'[Len(wire')].type = "user_connected"
  /\ wire'[Len(wire')].user_id # ""

\* the step delivers the close event of the active Link or constructs a Link
ActiveLinkEnds ==
  \/ lastOp'.op = "onclose" /\ wsRef # NoLink /\ lastOp'.ws = wsRef
  \/ nLinks' > nLinks

\* C26: a user_connected frame carrying a user_id that arrives on the active
\* Link sets the published participant id and is appended to the inbound
\* log; the published id keeps that value until that Link closes or a new
\* Link is constructed, and becomes null at that moment.
C26_IdHeldUntilLinkEnds ==
  [][/\ HandshakeOnActiveLink
          => /\ userId' = wire'[Len(wire')].user_id
             /\ messages' = Append(messages, JSONParse(wire'[Len(wire')]).value)
     /\ (userId # Null /\ wsRef # NoLink /\ ActiveLinkEnds) => userId' = Null
     /\ (userId # Null /\ wsRef # NoLink /\ userId' # userId) => ActiveLinkEnds]_vars

\* the Links that have not terminated: connecting or open
AliveLinks == {l \in LinkIds : links[l].readyState \in {"CONNECTING", "OPEN"}}

\* C27: in every reachable state at most one Link is connecting or open, and
\* that Link is the one wsRef references, also after connect() or
\* retryConnection() replaced a Link whose close event arrives later.
C27_SingleLiveLink ==
  /\ Cardinality(AliveLinks) <= 1
  /\ \A l \in AliveLinks : l = wsRef

\* the step delivers the close event of a Link that is not the active Link
StaleClose == lastOp'.op = "onclose" /\ lastOp'.ws # wsRef

\* C28: the close event of a Link that is not the active Link changes neither
\* the active-Link reference, nor the pending connect timeout, nor the
\* attempt counter, nor the backoff timers, nor the status.
C28_StaleCloseIgnored ==
  [][StaleClose
       => UNCHANGED << wsRef, connTimers, reconnectAttemptsRef, reconnTimers,
                       status >>]_vars

\* C29: in every reachable state at most one backoff timer and at most one
\* connect timeout is pending, and each pending timer is the one held in
\* reconnectTimeoutRef / connectionTimeoutRef, so clearTimeouts() leaves no
\* timer pending.
C29_TimersHeldInRefs ==
  /\ Cardinality(reconnTimers) <= 1
  /\ Cardinality(connTimers) <= 1
  /\ reconnTimers \subseteq {reconnectTimeoutRef}
  /\ connTimers \subseteq {connectionTimeoutRef}
  /\ clearTimeouts.reconn = {}
  /\ clearTimeouts.conn = {}

\* C30: in every reachable state a status of 'connected' comes with an
\* active Link that is open and with shouldReconnect true.
C30_ConnectedHasOpenLink ==
  status = "connected"
    => /\ wsRef # NoLink
       /\ links[wsRef].readyState = "OPEN"
       /\ shouldReconnectRef

\* C31: in every reachable state the published reconnectAttempt equals the
\* attempt counter reconnectAttemptsRef; in particular it is 0 whenever the
\* status is 'connected'.
C31_PublishedAttemptIsCounter ==
  /\ pubAttempt = reconnectAttemptsRef
  /\ status = "connected" => pubAttempt = 0

\* C32: a Link constructed by a backoff timer requests the same username and
\* channel as the Link constructed before it, so that all Links from one
\* explicit connect() or retryConnection() to the next explicit command
\* request one identity, also when retryConnection() substituted the
\* defaults for empty stored fields.
C32_ReattemptKeepsIdentity ==
  [][(lastOp'.op = "reconnectTimer" /\ nLinks >= 1 /\ nLinks' = nLinks + 1)
       => /\ links'[nLinks'].username = links[nLinks].username
          /\ links'[nLinks'].channel = links[nLinks].channel]_vars

\* C33: after the unmount cleanup has run no Link is constructed, and once
\* the close event of every Link has been delivered no timer is pending.
C33_NothingAfterUnmount ==
  [][unmounted
       => /\ nLinks' = nLinks
          /\ ~LiveLink' => (reconnTimers' = {} /\ connTimers' = {})]_vars

\* the step is a sendMessage that hands its payload to the transport
SentDirectly == lastOp'.op = "sendMessage" /\ Len(sent') = Len(sent) + 1

\* payloads reach the transport in the order of their acceptance: a direct
\* send happens only with an empty queue, and a step that takes payloads
\* from the queue hands over the oldest ones, in order
InAcceptanceOrder ==
  /\ SentDirectly => messageQueueRef = <<>>
  /\ (Len(messageQueueRef') < Len(messageQueueRef) /\ ~QueueDiscarded)
       => \E n \in 1..Len(messageQueueRef) : DrainedFirst(n)

\* C34: without a connect() or disconnect() in between, payloads reach the
\* transport in the order in which sendMessage accepted them, a direct send
\* never overtakes a queued payload, and every queued payload is handed to
\* the transport at the next successful open.
C34_AcceptanceOrderKept ==
  [][/\ InAcceptanceOrder
     /\ lastOp'.op = "onopen"
          => (messageQueueRef' = <<>> /\ Len(sent') = Len(sent) + Len(messageQueueRef))]_vars

\* the callbacks other than the delivery of a frame and clearMessages()
LogNeutral ==
  {"connect", "disconnect", "retryConnection", "sendMessage", "onopen",
   "onerror", "onclose", "connectionTimeout", "reconnectTimer"}

\* C35: the inbound log changes only by the append of a received frame and
\* by clearMessages(), which empties it; connect, disconnect,
\* retryConnection, sendMessage, Link open, Link close and every timer leave
\* it unchanged, and clearMessages() changes nothing but the log.
C35_LogChangesOnlyByAppendOrClear ==
  [][/\ lastOp'.op \in LogNeutral => messages' = messages
     /\ messages' # messages
          => \/ /\ lastOp'.op = "onmessage"
                /\ messages' = Append(messages, JSONParse(wire'[Len(wire')]).value)
             \/ /\ lastOp'.op = "clearMessages"
                /\ messages' = <<>>
     /\ lastOp'.op = "clearMessages"
          => /\ messages' = <<>>
             /\ UNCHANGED << status, error, userId, pubUsername, pubChannel,
                             pubAttempt, wsRef, reconnectAttemptsRef,
                             reconnectTimeoutRef, connectionTimeoutRef,
                             shouldReconnectRef, connectionParamsRef,
                             messageQueueRef, links, nLinks, reconnTimers,
                             connTimers, sent >>]_vars

\* C35 witness: a user_connected frame was appended and clearMessages() then
\* emptied the log, leaving the status and the participant id as they were
C35_Witness ==
  /\ lastOp.op = "clearMessages"
  /\ messages = <<>>
  /\ status = "connected"
  /\ userId = "u1"

\* the step appends a frame to the inbound log or records a participant id
FrameRecorded ==
  /\ lastOp'.op = "onmessage"
  /\ \/ Len(messages') = Len(messages) + 1
     \/ (userId' # userId /\ userId' # Null)

\* C36: every frame appended to the inbound log and every participant id
\* recorded was delivered by the Link that is the active Link at that
\* moment, while the status is 'connected'; a frame arriving on a Link that
\* the hook has replaced or closed is not appended.
C36_RecordedOnlyFromActiveLink ==
  [][FrameRecorded => (lastOp'.ws = wsRef /\ status = "connected")]_vars

\* C37: once the status is 'error' it changes only through connect(),
\* retryConnection() or disconnect(): no Link event and no timer moves it out
\* of 'error', and while the status is 'error' no backoff timer is pending.
C37_ErrorIsTerminal ==
  [][/\ (status = "error" /\ status' # "error")
          => lastOp'.op \in {"connect", "retryConnection", "disconnect"}
     /\ status' = "error" => reconnTimers' = {}]_vars

====
